---- MODULE Spec2Model ----
(***************************************************************************)
(* Model of backend/server.py: the websocket endpoint ws_endpoint that     *)
(* relays audio frames to a per-connection Vosk recognizer and sends back  *)
(* partial / final / system events.                                        *)
(*                                                                         *)
(* One handler (coroutine) per connection.  A handler is suspended only at *)
(* its awaits: websocket.receive() (pc = "recv") and websocket.send_text() *)
(* (pc = "send"); everything between two awaits is one atomic step.        *)
(*                                                                         *)
(* The recognizer (vosk.KaldiRecognizer) and the transport                 *)
(* (starlette.websockets.WebSocket) are libraries the source calls.  They  *)
(* are modelled by what the source relies on:                              *)
(*   - the recognizer is a deterministic function of the audio it has      *)
(*     accumulated; a silence chunk after speech ends the segment;         *)
(*   - WebSocket.receive() returns the raw ASGI message; a client          *)
(*     disconnect is returned as a "websocket.disconnect" message (which   *)
(*     has neither a "bytes" nor a "text" key), and a receive() after that *)
(*     message raises RuntimeError;                                        *)
(*   - WebSocket.send_text() may raise WebSocketDisconnect (client gone)   *)
(*     or another exception.                                               *)
(* JSON texts are sequences of tokens.                                     *)
(***************************************************************************)
EXTENDS Naturals, Sequences, FiniteSets

\* ---- bounds of the model ----
\* frames received in all, one connection (Spec)
MaxFrames == 4
\* frames received in all, two concurrent connections (SpecConc)
MaxFramesConc == 3

\* ---- program constants ----
SAMPLE_RATE == 16000
INTERNAL_ERROR == 1011

Conns == {"c1", "c2"}

VARIABLES
  proc,          \* the process after import: "serving" (MODEL loaded) or "failed"
  pc,            \* per connection: "absent", "idle", "recv", "send", "closed"
  rec,           \* per connection: the handler's local recognizer `rec`
  client_state,  \* per connection: the WebSocket's client_state
  pending,       \* per connection: <<text>> being sent by send_text, else <<>>
  ending,        \* per connection: the pending send is the one before `break`
  exit,          \* per connection: how the handler ended
  closeLog,      \* per connection: the websocket.close(code, reason) calls made
  inlog,         \* history: the messages receive() returned, in order
  out,           \* history: the texts send_text delivered, in order
  outCause,      \* history: for each text of out, the number of messages
                 \* received when it was produced and when it was delivered
  engLog         \* history: the recognizer calls made, <<instance id, call>>

vars == <<proc, pc, rec, client_state, pending, ending, exit, closeLog,
          inlog, out, outCause, engLog>>

\* ------------------------------------------------------------------
\* JSON (json.dumps / json.loads), texts as token sequences
\* ------------------------------------------------------------------

\* the text of a JSON object whose members are the tokens `members`
JsonObjectText(members) == <<"{">> \o members \o <<"}">>

\* json.loads of an object text: the members between the braces
json_loads(s) == SubSeq(s, 2, Len(s) - 1)

\* json.dumps({"type": type, "data": <object obj>})
json_dumps_obj(type, obj) ==
  <<"{", "type", type, "data">> \o JsonObjectText(obj) \o <<"}">>

\* json.dumps({"type": type, "data": <string s>})
json_dumps_str(type, s) == <<"{", "type", type, "data", s, "}">>

\* the "type" member of an event text
EventType(m) == m[3]

\* ------------------------------------------------------------------
\* The recognizer (vosk.KaldiRecognizer), as the source uses it
\* ------------------------------------------------------------------

\* audio payloads: a chunk is a sequence of sound units; <<>> is zero-length
Words == {"hi", "yo"}
Silence == "sil"
Chunks == {<<>>, <<"hi">>, <<"yo">>, <<Silence>>}

\* no recognizer constructed yet
NoRec == [id |-> 0, rate |-> 0, words |-> FALSE, buf |-> <<>>]

\* KaldiRecognizer(MODEL, SAMPLE_RATE); SetWords(True): the instance number id
NewRecognizer(id) ==
  [id |-> id, rate |-> SAMPLE_RATE, words |-> TRUE, buf |-> <<>>]

\* the words a recognizer r has heard after data
Heard(r, data) ==
  r.buf \o SelectSeq(data, LAMBDA u : u \in Words)

\* rec.AcceptWaveform(data): True when a final segment is ready, which is when
\* silence follows speech
AcceptWaveform(r, data) ==
  [rec   |-> [r EXCEPT !.buf = Heard(r, data)],
   ready |-> /\ Len(data) > 0
             /\ data[Len(data)] = Silence
             /\ Heard(r, data) # <<>>]

\* the result object of a segment: its text, and with SetWords(True) its words
SegmentMembers(r) ==
  <<"text">> \o r.buf \o (IF r.words /\ r.buf # <<>> THEN <<"result">> \o r.buf ELSE <<>>)

\* rec.Result(): the final segment's JSON, and the recognizer starts a new segment
Result(r) ==
  [rec |-> [r EXCEPT !.buf = <<>>], text |-> JsonObjectText(SegmentMembers(r))]

\* rec.PartialResult(): the partial JSON
PartialResult(r) == JsonObjectText(<<"partial">> \o r.buf)

\* rec.FinalResult(): flushes what is buffered
FinalResult(r) ==
  [rec |-> [r EXCEPT !.buf = <<>>], text |-> JsonObjectText(SegmentMembers(r))]

\* ------------------------------------------------------------------
\* One pass of the loop body of ws_endpoint, from the message receive()
\* returned to the next await: the recognizer afterwards (rec), the text to
\* send (ev: <<text>> or <<>>), what follows (ctl: "loop", "break", "raise"),
\* the exception's message (err) and the recognizer calls made (calls).
\* fault = "engine" makes the recognizer call of this pass raise.
\* ------------------------------------------------------------------

\* a pass that does nothing: continue, an ignored text, a message with neither key
Skip(r) == [rec |-> r, ev |-> <<>>, ctl |-> "loop", err |-> "", calls |-> <<>>]

\* a pass in which a call raised an exception with message e
Raise(r, e, calls) == [rec |-> r, ev |-> <<>>, ctl |-> "raise", err |-> e, calls |-> calls]

\* a feed that ignores what AcceptWaveform returned and always sends a partial
FeedAlwaysPartial(r, data, fault) ==
  IF fault = "engine"
  THEN Raise(r, "AcceptWaveform failed", << <<r.id, "AcceptWaveform">> >>)
  ELSE LET a == AcceptWaveform(r, data) IN
       [rec |-> a.rec,
        ev |-> << json_dumps_obj("partial", json_loads(PartialResult(a.rec))) >>,
        ctl |-> "loop", err |-> "",
        calls |-> << <<r.id, "AcceptWaveform">>, <<r.id, "PartialResult">> >>]

\* a feed that sends final events only and drops the partial ones
FeedFinalOnly(r, data, fault) ==
  IF fault = "engine"
  THEN Raise(r, "AcceptWaveform failed", << <<r.id, "AcceptWaveform">> >>)
  ELSE LET a == AcceptWaveform(r, data) IN
       IF a.ready
       THEN LET res == Result(a.rec) IN
            [rec |-> res.rec,
             ev |-> << json_dumps_obj("final", json_loads(res.text)) >>,
             ctl |-> "loop", err |-> "",
             calls |-> << <<r.id, "AcceptWaveform">>, <<r.id, "Result">> >>]
       ELSE [rec |-> a.rec, ev |-> <<>>, ctl |-> "loop", err |-> "",
             calls |-> << <<r.id, "AcceptWaveform">> >>]

\* a non-empty chunk: AcceptWaveform, then the final or the partial event
Feed(r, data, fault) ==
  IF fault = "engine"
  THEN Raise(r, "AcceptWaveform failed", << <<r.id, "AcceptWaveform">> >>)
  ELSE LET a == AcceptWaveform(r, data) IN
       IF a.ready
       THEN LET res == Result(a.rec) IN
            [rec |-> res.rec,
             ev |-> << json_dumps_obj("final", json_loads(res.text)) >>,
             ctl |-> "loop", err |-> "",
             calls |-> << <<r.id, "AcceptWaveform">>, <<r.id, "Result">> >>]
       ELSE [rec |-> a.rec,
             ev |-> << json_dumps_obj("partial", json_loads(PartialResult(a.rec))) >>,
             ctl |-> "loop", err |-> "",
             calls |-> << <<r.id, "AcceptWaveform">>, <<r.id, "PartialResult">> >>]

\* a binary message whose zero-length payload is fed like any other
HandleBytesFeedsEmpty(r, data, fault) == Feed(r, data, fault)

\* if "bytes" in message: a zero-length payload is skipped (continue)
HandleBytes(r, data, fault) ==
  IF Len(data) = 0 THEN Skip(r) ELSE Feed(r, data, fault)

\* "__end__" that flushes and sends the final event but stays in the loop
EndKeepsLooping(r, fault) ==
  IF fault = "engine"
  THEN Raise(r, "FinalResult failed", << <<r.id, "FinalResult">> >>)
  ELSE LET f == FinalResult(r) IN
       [rec |-> f.rec,
        ev |-> << json_dumps_obj("final", json_loads(f.text)) >>,
        ctl |-> "loop", err |-> "",
        calls |-> << <<r.id, "FinalResult">> >>]

\* "__end__" that leaves the loop without flushing
EndWithoutFinal(r, fault) ==
  [rec |-> r, ev |-> <<>>, ctl |-> "break", err |-> "", calls |-> <<>>]

\* text == "__end__": flush the final result, send it, break
End(r, fault) ==
  IF fault = "engine"
  THEN Raise(r, "FinalResult failed", << <<r.id, "FinalResult">> >>)
  ELSE LET f == FinalResult(r) IN
       [rec |-> f.rec,
        ev |-> << json_dumps_obj("final", json_loads(f.text)) >>,
        ctl |-> "break", err |-> "",
        calls |-> << <<r.id, "FinalResult">> >>]

\* "__reset__" that acknowledges first and swallows the constructor's exception
ResetAcksBeforeConstruct(r, fault) ==
  IF fault = "engine"
  THEN [rec |-> r, ev |-> << json_dumps_str("system", "reset") >>,
        ctl |-> "loop", err |-> "", calls |-> <<>>]
  ELSE [rec |-> NewRecognizer(r.id + 1),
        ev |-> << json_dumps_str("system", "reset") >>,
        ctl |-> "loop", err |-> "",
        calls |-> << <<r.id + 1, "new">> >>]

\* "__reset__" whose new recognizer is left without SetWords(True)
ResetNoWords(r, fault) ==
  IF fault = "engine"
  THEN Raise(r, "KaldiRecognizer failed", <<>>)
  ELSE [rec |-> [NewRecognizer(r.id + 1) EXCEPT !.words = FALSE],
        ev |-> << json_dumps_str("system", "reset") >>,
        ctl |-> "loop", err |-> "",
        calls |-> << <<r.id + 1, "new">> >>]

\* "__reset__" that acknowledges but keeps the recognizer it had
ResetKeepsRec(r, fault) ==
  [rec |-> r, ev |-> << json_dumps_str("system", "reset") >>,
   ctl |-> "loop", err |-> "", calls |-> <<>>]

\* "__reset__" that replaces the recognizer but sends nothing
ResetNoAck(r, fault) ==
  IF fault = "engine"
  THEN Raise(r, "KaldiRecognizer failed", <<>>)
  ELSE [rec |-> NewRecognizer(r.id + 1), ev |-> <<>>,
        ctl |-> "loop", err |-> "", calls |-> << <<r.id + 1, "new">> >>]

\* text == "__reset__": a new recognizer replaces rec, then the system event
Reset(r, fault) ==
  IF fault = "engine"
  THEN Raise(r, "KaldiRecognizer failed", <<>>)
  ELSE [rec |-> NewRecognizer(r.id + 1),
        ev |-> << json_dumps_str("system", "reset") >>,
        ctl |-> "loop", err |-> "",
        calls |-> << <<r.id + 1, "new">> >>]

\* any other text leaving the loop
HandleTextOtherBreaks(r, text, fault) ==
  IF text = "__end__" THEN End(r, fault)
  ELSE IF text = "__reset__" THEN Reset(r, fault)
  ELSE [rec |-> r, ev |-> <<>>, ctl |-> "break", err |-> "", calls |-> <<>>]

\* any other text taken for a reset
HandleTextOtherResets(r, text, fault) ==
  IF text = "__end__" THEN End(r, fault) ELSE Reset(r, fault)

\* elif "text" in message
HandleText(r, text, fault) ==
  IF text = "__end__" THEN End(r, fault)
  ELSE IF text = "__reset__" THEN Reset(r, fault)
  ELSE Skip(r)

\* a loop body that leaves the loop when the message has neither key
HandleMessageDisconnectBreaks(r, msg, fault) ==
  IF "bytes" \in DOMAIN msg THEN HandleBytes(r, msg.bytes, fault)
  ELSE IF "text" \in DOMAIN msg THEN HandleText(r, msg.text, fault)
  ELSE [rec |-> r, ev |-> <<>>, ctl |-> "break", err |-> "", calls |-> <<>>]

\* a loop body that flushes the recognizer when the message has neither key
HandleMessageFlushesOnDisconnect(r, msg, fault) ==
  IF "bytes" \in DOMAIN msg THEN HandleBytes(r, msg.bytes, fault)
  ELSE IF "text" \in DOMAIN msg THEN HandleText(r, msg.text, fault)
  ELSE End(r, "none")

\* the body of the while loop for one message
HandleMessage(r, msg, fault) ==
  IF "bytes" \in DOMAIN msg THEN HandleBytes(r, msg.bytes, fault)
  ELSE IF "text" \in DOMAIN msg THEN HandleText(r, msg.text, fault)
  ELSE Skip(r)

\* ------------------------------------------------------------------
\* What receive() can return
\* ------------------------------------------------------------------
Texts == {"__end__", "__reset__", "foo"}

DisconnectMsg == [type |-> "websocket.disconnect"]

Messages ==
  {[type |-> "websocket.receive", bytes |-> d] : d \in Chunks}
  \cup {[type |-> "websocket.receive", text |-> t] : t \in Texts}
  \cup {DisconnectMsg}

IsAudio(msg) == "bytes" \in DOMAIN msg /\ Len(msg.bytes) > 0
IsEmptyAudio(msg) == "bytes" \in DOMAIN msg /\ Len(msg.bytes) = 0
IsText(msg, t) == "text" \in DOMAIN msg /\ msg.text = t
IsOtherText(msg) == "text" \in DOMAIN msg /\ msg.text \notin {"__end__", "__reset__"}
IsDisconnect(msg) == msg.type = "websocket.disconnect"

\* the passes in which the recognizer is called, and so can raise
EngineCalled(msg) == IsAudio(msg) \/ IsText(msg, "__end__") \/ IsText(msg, "__reset__")

\* ------------------------------------------------------------------
\* The except clauses
\* ------------------------------------------------------------------

\* an exception swallowed without closing
OnExceptionNoClose(e) == [exit |-> "error", close |-> <<>>]

\* except Exception as e: websocket.close(code=1011, reason=str(e)); return
OnException(e) ==
  [exit |-> "error", close |-> << [code |-> INTERNAL_ERROR, reason |-> e] >>]

\* except WebSocketDisconnect: return
OnDisconnect == [exit |-> "disconnect", close |-> <<>>]

\* ------------------------------------------------------------------
\* The handlers
\* ------------------------------------------------------------------

\* a recognizer shared by all connections
EngineOfShared(c) == "c1"

\* rec is a local of the call of ws_endpoint that serves c
EngineOf(c) == c

\* send_text started without being awaited
FireAndForget(ev) == FALSE

\* await websocket.send_text(...): the handler waits for the send
AwaitsSend(ev) == ev # <<>>

TotalFrames == Len(inlog["c1"]) + Len(inlog["c2"])

FrameLimit == IF pc["c2"] = "absent" THEN MaxFrames ELSE MaxFramesConc

\* the state of the connection handler in the spec's terms
Open(c) == pc[c] \in {"recv", "send"}
Closed(c) == pc[c] = "closed"

Init ==
  /\ proc \in {"serving", "failed"}
  /\ pc = [c \in Conns |-> IF c = "c1" THEN "idle" ELSE "absent"]
  /\ rec = [c \in Conns |-> NoRec]
  /\ client_state = [c \in Conns |-> "CONNECTING"]
  /\ pending = [c \in Conns |-> <<>>]
  /\ ending = [c \in Conns |-> FALSE]
  /\ exit = [c \in Conns |-> "none"]
  /\ closeLog = [c \in Conns |-> <<>>]
  /\ inlog = [c \in Conns |-> <<>>]
  /\ out = [c \in Conns |-> <<>>]
  /\ outCause = [c \in Conns |-> <<>>]
  /\ engLog = [c \in Conns |-> <<>>]

InitConc ==
  /\ proc = "serving"
  /\ pc = [c \in Conns |-> "idle"]
  /\ rec = [c \in Conns |-> NoRec]
  /\ client_state = [c \in Conns |-> "CONNECTING"]
  /\ pending = [c \in Conns |-> <<>>]
  /\ ending = [c \in Conns |-> FALSE]
  /\ exit = [c \in Conns |-> "none"]
  /\ closeLog = [c \in Conns |-> <<>>]
  /\ inlog = [c \in Conns |-> <<>>]
  /\ out = [c \in Conns |-> <<>>]
  /\ outCause = [c \in Conns |-> <<>>]
  /\ engLog = [c \in Conns |-> <<>>]

\* an app that is served although the import did not load the model
EndpointWithoutModel == TRUE

\* the app and its /ws route exist only if the import ran to its end: the
\* model path was a directory and MODEL = Model(MODEL_PATH) was assigned
EndpointExists == proc = "serving"

\* an accept that greets the client with a system event of its own
AcceptGreets(c) ==
  /\ EndpointExists
  /\ pc[c] = "idle"
  /\ client_state' = [client_state EXCEPT ![c] = "CONNECTED"]
  /\ \/ /\ rec' = [rec EXCEPT ![EngineOf(c)] = NewRecognizer(1)]
        /\ engLog' = [engLog EXCEPT ![c] = << <<1, "new">> >>]
        /\ pc' = [pc EXCEPT ![c] = "send"]
        /\ pending' = [pending EXCEPT ![c] =
                         << [text |-> json_dumps_str("system", "ready"), at |-> 0] >>]
        /\ exit' = exit
     \/ /\ pc' = [pc EXCEPT ![c] = "closed"]
        /\ exit' = [exit EXCEPT ![c] = "init_error"]
        /\ UNCHANGED <<rec, engLog, pending>>
  /\ UNCHANGED <<proc, ending, closeLog, inlog, out, outCause>>

\* an accept that swallows the constructor's exception and enters the loop
AcceptSwallowsInitError(c) ==
  /\ EndpointExists
  /\ pc[c] = "idle"
  /\ client_state' = [client_state EXCEPT ![c] = "CONNECTED"]
  /\ \/ /\ rec' = [rec EXCEPT ![EngineOf(c)] = NewRecognizer(1)]
        /\ engLog' = [engLog EXCEPT ![c] = << <<1, "new">> >>]
        /\ pc' = [pc EXCEPT ![c] = "recv"]
        /\ exit' = exit
     \/ /\ pc' = [pc EXCEPT ![c] = "recv"]
        /\ exit' = [exit EXCEPT ![c] = "init_error"]
        /\ UNCHANGED <<rec, engLog>>
  /\ UNCHANGED <<proc, pending, ending, closeLog, inlog, out, outCause>>

\* websocket.accept(); rec = KaldiRecognizer(MODEL, SAMPLE_RATE); rec.SetWords(True)
\* The constructor is outside the try: if it raises, the handler ends there.
Accept(c) ==
  /\ EndpointExists
  /\ pc[c] = "idle"
  /\ client_state' = [client_state EXCEPT ![c] = "CONNECTED"]
  /\ \/ /\ rec' = [rec EXCEPT ![EngineOf(c)] = NewRecognizer(1)]
        /\ engLog' = [engLog EXCEPT ![c] = << <<1, "new">> >>]
        /\ pc' = [pc EXCEPT ![c] = "recv"]
        /\ exit' = exit
     \/ /\ pc' = [pc EXCEPT ![c] = "closed"]
        /\ exit' = [exit EXCEPT ![c] = "init_error"]
        /\ UNCHANGED <<rec, engLog>>
  /\ UNCHANGED <<proc, pending, ending, closeLog, inlog, out, outCause>>

\* message = await websocket.receive(), and the loop body up to its next await
Receive(c) ==
  /\ pc[c] = "recv"
  /\ client_state[c] = "CONNECTED"
  /\ TotalFrames < FrameLimit
  /\ \E msg \in Messages, fault \in {"none", "engine"} :
       /\ fault = "engine" => EngineCalled(msg)
       /\ LET h == HandleMessage(rec[EngineOf(c)], msg, fault)
              x == OnException(h.err)
          IN
          /\ inlog' = [inlog EXCEPT ![c] = Append(@, msg)]
          /\ client_state' = [client_state EXCEPT ![c] =
                                IF IsDisconnect(msg) THEN "DISCONNECTED" ELSE @]
          /\ rec' = [rec EXCEPT ![EngineOf(c)] = h.rec]
          /\ engLog' = [engLog EXCEPT ![c] = @ \o h.calls]
          /\ IF h.ctl = "raise"
             THEN /\ pc' = [pc EXCEPT ![c] = "closed"]
                  /\ exit' = [exit EXCEPT ![c] = x.exit]
                  /\ closeLog' = [closeLog EXCEPT ![c] = @ \o x.close]
                  /\ UNCHANGED <<pending, ending>>
             ELSE /\ pending' = [pending EXCEPT ![c] =
                       IF h.ev = <<>> THEN <<>>
                       ELSE << [text |-> h.ev[1], at |-> Len(inlog[c]) + 1] >>]
                  /\ ending' = [ending EXCEPT ![c] = (h.ctl = "break")]
                  /\ pc' = [pc EXCEPT ![c] =
                       IF AwaitsSend(h.ev) THEN "send"
                       ELSE IF h.ctl = "break" THEN "closed" ELSE "recv"]
                  /\ exit' = [exit EXCEPT ![c] =
                       IF ~AwaitsSend(h.ev) /\ h.ctl = "break" THEN "end" ELSE @]
                  /\ UNCHANGED closeLog
  /\ UNCHANGED <<proc, out, outCause>>

\* await websocket.receive() after the disconnect message was returned:
\* starlette raises RuntimeError, which except Exception catches
ReceiveAfterDisconnect(c) ==
  /\ pc[c] = "recv"
  /\ client_state[c] = "DISCONNECTED"
  /\ LET x == OnException("Cannot call receive once a disconnect message has been received") IN
     /\ pc' = [pc EXCEPT ![c] = "closed"]
     /\ exit' = [exit EXCEPT ![c] = x.exit]
     /\ closeLog' = [closeLog EXCEPT ![c] = @ \o x.close]
  /\ UNCHANGED <<proc, rec, client_state, pending, ending, inlog, out, outCause, engLog>>

\* await websocket.send_text(...) completes, or raises
Send(c) ==
  /\ pc[c] = "send"
  /\ pending[c] # <<>>
  /\ \/ /\ out' = [out EXCEPT ![c] = Append(@, pending[c][1].text)]
        /\ outCause' = [outCause EXCEPT ![c] =
                          Append(@, <<pending[c][1].at, Len(inlog[c])>>)]
        /\ pending' = [pending EXCEPT ![c] = <<>>]
        /\ pc' = [pc EXCEPT ![c] = IF ending[c] THEN "closed" ELSE "recv"]
        /\ exit' = [exit EXCEPT ![c] = IF ending[c] THEN "end" ELSE @]
        /\ UNCHANGED closeLog
     \/ /\ pc' = [pc EXCEPT ![c] = "closed"]
        /\ exit' = [exit EXCEPT ![c] = OnDisconnect.exit]
        /\ closeLog' = [closeLog EXCEPT ![c] = @ \o OnDisconnect.close]
        /\ UNCHANGED <<out, outCause, pending>>
     \/ /\ LET x == OnException("send_text failed") IN
           /\ pc' = [pc EXCEPT ![c] = "closed"]
           /\ exit' = [exit EXCEPT ![c] = x.exit]
           /\ closeLog' = [closeLog EXCEPT ![c] = @ \o x.close]
        /\ UNCHANGED <<out, outCause, pending>>
  /\ UNCHANGED <<proc, rec, client_state, ending, inlog, engLog>>

Next ==
  \E c \in Conns :
    \/ Accept(c)
    \/ Receive(c)
    \/ ReceiveAfterDisconnect(c)
    \/ Send(c)

\* each send_text that is awaited eventually completes or raises
Fairness == \A c \in Conns : WF_vars(Send(c))

\* one connection
Spec == Init /\ [][Next]_vars

\* two concurrent connections
SpecConc == InitConc /\ [][Next]_vars

\* one connection, every awaited send eventually completing
SpecLive == Init /\ [][Next]_vars /\ Fairness

\* ==================================================================
\* Properties
\* ==================================================================

\* the loop body folded over a message sequence from recognizer r, no call
\* raising: the recognizer afterwards and the texts to send, in order
RECURSIVE ReplayFrom(_, _)
ReplayFrom(r, log) ==
  IF log = <<>> THEN [rec |-> r, out |-> <<>>]
  ELSE LET h == HandleMessage(r, Head(log), "none")
           rest == ReplayFrom(h.rec, Tail(log))
       IN [rec |-> rest.rec, out |-> h.ev \o rest.out]

\* a session as it is right after accept
Fresh == NewRecognizer(1)

AllButLast(s) == SubSeq(s, 1, Len(s) - 1)

\* the messages of c whose pass is complete: received, handled without an
\* exception, and their event (if any) delivered
Processed(c) ==
  IF pc[c] = "send" \/ exit[c] \in {"error", "disconnect"}
  THEN AllButLast(inlog[c])
  ELSE inlog[c]

Count(s, Test(_)) == Len(SelectSeq(s, Test))

IsAudioEvent(m) == EventType(m) \in {"partial", "final"}

NumAudio(log) == Count(log, IsAudio)

LastIs(log, Test(_)) == log # <<>> /\ Test(log[Len(log)])

IsEnd(msg) == IsText(msg, "__end__")
IsReset(msg) == IsText(msg, "__reset__")

\* the events of c produced by messages after the i-th
EventsCausedAfter(c, i) ==
  LET n == Cardinality({k \in 1..Len(out[c]) : outCause[c][k][1] > i})
  IN SubSeq(out[c], Len(out[c]) - n + 1, Len(out[c]))

\* the events of c produced by the i-th message
EventsCausedBy(c, i) ==
  {k \in 1..Len(out[c]) : outCause[c][k][1] = i}

ResetAck == json_dumps_str("system", "reset")

\* ---- C1 ----
\* C1: while a connection is Open and no error has occurred, the partial and
\* final events sent for audio, counting the one whose send is in progress,
\* are as many as the non-empty binary frames received.
C1_OneEventPerChunk ==
  \A c \in Conns :
    (Open(c) /\ exit[c] = "none") =>
      Count(out[c], IsAudioEvent)
        + (IF pending[c] # <<>> /\ ~ending[c] /\ IsAudioEvent(pending[c][1].text)
           THEN 1 ELSE 0)
      = NumAudio(inlog[c])

C1_Witness ==
  \E c \in Conns :
    /\ pc[c] = "recv" /\ exit[c] = "none"
    /\ NumAudio(inlog[c]) >= 3
    /\ \E k \in 1..Len(out[c]) : EventType(out[c][k]) = "final"
    /\ \E k \in 1..Len(out[c]) : EventType(out[c][k]) = "partial"

\* ---- C2 ----
\* C2: a "__end__" frame received in Open flushes the recognizer and yields
\* exactly one final event, carrying the flushed result, and nothing else: it
\* is the pending send while the handler is still Open, and it has been sent
\* whenever the handler has ended by "__end__".
C2_EndSendsOneFinal ==
  \A c \in Conns :
    LET before == ReplayFrom(Fresh, AllButLast(inlog[c]))
        final == json_dumps_obj("final", SegmentMembers(before.rec))
        flushes == Count(engLog[c], LAMBDA e : e[2] = "FinalResult")
    IN
    /\ (LastIs(inlog[c], IsEnd) /\ exit[c] = "none") =>
         /\ pc[c] = "send" /\ ending[c]
         /\ pending[c] # <<>> /\ pending[c][1].text = final
         /\ out[c] = before.out
         /\ flushes = 1
    /\ exit[c] = "end" =>
         /\ LastIs(inlog[c], IsEnd)
         /\ Closed(c)
         /\ out[c] = before.out \o <<final>>
         /\ pending[c] = <<>>
         /\ flushes = 1
    /\ (pc[c] = "send" /\ ending[c]) => LastIs(inlog[c], IsEnd)

C2_Witness ==
  \E c \in Conns :
    /\ exit[c] = "end"
    /\ NumAudio(inlog[c]) = 0
    /\ Count(out[c], LAMBDA m : EventType(m) = "final") = 1

\* ---- C3 ----
\* C3: once the transport has signalled the client's disconnect, the handler
\* ends silently: no event after it, no flush, no close(code, reason) by the
\* server, and the handler does not end as for a fatal error.
C3_DisconnectIsSilent ==
  \A c \in Conns :
    client_state[c] = "DISCONNECTED" =>
      /\ exit[c] # "error"
      /\ closeLog[c] = <<>>

\* ---- C4 ----
\* the message of the exception that ended c's handler
ExpectedReason(c) ==
  IF pending[c] # <<>> THEN "send_text failed"
  ELSE IF LastIs(inlog[c], IsAudio) THEN "AcceptWaveform failed"
  ELSE IF LastIs(inlog[c], IsEnd) THEN "FinalResult failed"
  ELSE "KaldiRecognizer failed"

\* C4: when feeding, flushing, resetting or sending raises (the client not
\* having disconnected), the handler is Closed having called close exactly
\* once, with code 1011 and the exception's message; from then on it receives
\* no frame, sends no event and closes nothing.
C4_ErrorClosesOnce ==
  [][\A c \in Conns :
       /\ (exit'[c] = "error" /\ client_state'[c] = "CONNECTED") =>
            /\ pc'[c] = "closed"
            /\ closeLog'[c] = << [code |-> 1011, reason |-> ExpectedReason(c)'] >>
       /\ exit[c] = "error" =>
            /\ inlog'[c] = inlog[c]
            /\ out'[c] = out[c]
            /\ closeLog'[c] = closeLog[c]
            /\ exit'[c] = "error"]_vars

C4_Witness ==
  \E c \in Conns :
    /\ exit[c] = "error" /\ client_state[c] = "CONNECTED"
    /\ closeLog[c] # <<>> /\ closeLog[c][1].reason = "AcceptWaveform failed"
    /\ Len(out[c]) >= 2

\* ---- C5 ----
\* C5: after any "__reset__" that was processed, the events produced by the
\* frames that follow it are those a brand-new session produces for the same
\* frames.
C5_ResetIsFresh ==
  \A c \in Conns :
    LET P == Processed(c) IN
    \A i \in 1..Len(P) :
      IsReset(P[i]) =>
        EventsCausedAfter(c, i) = ReplayFrom(Fresh, SubSeq(P, i + 1, Len(P))).out

C5_Witness ==
  \E c \in Conns :
    /\ Len(inlog[c]) >= 3
    /\ IsAudio(inlog[c][1]) /\ inlog[c][1].bytes # <<Silence>>
    /\ IsReset(inlog[c][2])
    /\ IsAudio(inlog[c][3])
    /\ Len(out[c]) = 3

\* ---- C6 ----
\* C6: every processed "__reset__" frame, the first frame included, produced
\* exactly one event, the system event "reset"; system events come from
\* nothing else; and a reset does not end the handler: it ends by "end" only
\* on a "__end__" frame, and is otherwise still Open after a reset.
C6_ResetAcked ==
  \A c \in Conns :
    LET P == Processed(c) IN
    /\ \A i \in 1..Len(P) :
         IsReset(P[i]) =>
           /\ Cardinality(EventsCausedBy(c, i)) = 1
           /\ \A k \in EventsCausedBy(c, i) : out[c][k] = ResetAck
    /\ Count(out[c], LAMBDA m : EventType(m) = "system") = Count(P, IsReset)
    /\ exit[c] = "end" => LastIs(inlog[c], IsEnd)
    /\ (LastIs(P, IsReset) /\ exit[c] = "none") => Open(c)

C6_Witness ==
  \E c \in Conns :
    /\ Len(inlog[c]) = 4
    /\ IsReset(inlog[c][1])
    /\ IsAudio(inlog[c][2])
    /\ IsReset(inlog[c][3])
    /\ IsEnd(inlog[c][4])
    /\ exit[c] = "end"
    /\ Len(out[c]) = 4

\* ---- C7 ----
NotEmptyAudio(msg) == ~IsEmptyAudio(msg)

\* C7: zero-length binary frames change nothing: the events sent are those
\* of the same frames with the empty ones removed, so is the recognizer, the
\* recognizer was fed once per non-empty chunk only, and after an empty frame
\* the handler is back at receive with nothing to send.
C7_EmptyFrameNoOp ==
  \A c \in Conns :
    /\ out[c] = ReplayFrom(Fresh, SelectSeq(Processed(c), NotEmptyAudio)).out
    /\ (Open(c) /\ exit[c] = "none") =>
         rec[c] = ReplayFrom(Fresh, SelectSeq(inlog[c], NotEmptyAudio)).rec
    /\ Count(engLog[c], LAMBDA e : e[2] = "AcceptWaveform") = NumAudio(inlog[c])
    /\ (LastIs(inlog[c], IsEmptyAudio) /\ exit[c] = "none") =>
         pc[c] = "recv" /\ pending[c] = <<>>

C7_Witness ==
  \E c \in Conns :
    /\ Len(inlog[c]) = 3 /\ pc[c] = "recv"
    /\ IsAudio(inlog[c][1]) /\ IsEmptyAudio(inlog[c][2]) /\ IsAudio(inlog[c][3])
    /\ Len(out[c]) = 2

\* ---- C8 ----
NotOtherText(msg) == ~IsOtherText(msg)

\* C8: text frames other than "__end__" and "__reset__" change nothing: the
\* events sent and the recognizer are those of the same frames with these
\* texts removed, and after such a frame the handler is back at receive, Open.
C8_OtherTextIgnored ==
  \A c \in Conns :
    /\ out[c] = ReplayFrom(Fresh, SelectSeq(Processed(c), NotOtherText)).out
    /\ (Open(c) /\ exit[c] = "none") =>
         rec[c] = ReplayFrom(Fresh, SelectSeq(inlog[c], NotOtherText)).rec
    /\ (LastIs(inlog[c], IsOtherText) /\ exit[c] = "none") =>
         pc[c] = "recv" /\ pending[c] = <<>>

C8_Witness ==
  \E c \in Conns :
    /\ Len(inlog[c]) = 3 /\ pc[c] = "recv"
    /\ IsAudio(inlog[c][1]) /\ IsOtherText(inlog[c][2]) /\ IsAudio(inlog[c][3])
    /\ Len(out[c]) = 2

\* ---- C9 ----
\* C9: on a connection, each frame has at most one event, events leave in the
\* order of their frames, and the event of frame k is delivered while k frames
\* have been received: no frame is read while a send is pending.
C9_OrderedNoReadAhead ==
  \A c \in Conns :
    /\ pc[c] = "recv" => pending[c] = <<>>
    /\ Len(outCause[c]) = Len(out[c])
    /\ \A k \in 1..Len(out[c]) : outCause[c][k][1] = outCause[c][k][2]
    /\ \A k, l \in 1..Len(out[c]) : k < l => outCause[c][k][1] < outCause[c][l][1]
    /\ pending[c] # <<>> =>
         /\ pending[c][1].at = Len(inlog[c])
         /\ \A k \in 1..Len(out[c]) : outCause[c][k][1] < pending[c][1].at
    /\ out[c] = ReplayFrom(Fresh, Processed(c)).out

C9_Witness ==
  \E c \in Conns :
    /\ Len(out[c]) >= 3
    /\ EventType(out[c][1]) # EventType(out[c][2])
    /\ \E k \in 1..Len(inlog[c]) : IsOtherText(inlog[c][k]) \/ IsEmptyAudio(inlog[c][k])

\* ---- C10 ----
\* C10: with two connections served concurrently, the events sent on each
\* and its recognizer are those of its own frames replayed alone on a new
\* session, whatever the other connection received, reset or raised.
C10_Isolation ==
  \A c \in Conns :
    pc[c] \in {"recv", "send", "closed"} /\ exit[c] # "init_error" =>
      /\ out[c] = ReplayFrom(Fresh, Processed(c)).out
      /\ (Open(c) /\ exit[c] = "none") => rec[c] = ReplayFrom(Fresh, inlog[c]).rec

C10_Witness ==
  /\ exit["c1"] = "error" /\ out["c1"] # <<>>
  /\ pc["c2"] = "recv" /\ out["c2"] # <<>>
  /\ rec["c2"].buf = <<"yo">>
  /\ IsAudio(inlog["c1"][1]) /\ inlog["c1"][1].bytes = <<"hi">>

\* ---- C11 ----
\* C11: Closed is terminal: a Closed handler receives nothing, sends
\* nothing, calls the recognizer no more and stays Closed; and once a "__end__"
\* frame has been processed the handler is Closed by it, that frame is the
\* last received and its final event is the last event sent.
C11_ClosedIsTerminal ==
  [][\A c \in Conns :
       /\ Closed(c) =>
            /\ pc'[c] = "closed"
            /\ exit'[c] = exit[c]
            /\ inlog'[c] = inlog[c]
            /\ out'[c] = out[c]
            /\ pending'[c] = pending[c]
            /\ engLog'[c] = engLog[c]
            /\ rec'[c] = rec[c]
            /\ closeLog'[c] = closeLog[c]
       /\ (\E i \in 1..Len(Processed(c)') : IsEnd(Processed(c)'[i])) =>
            /\ pc'[c] = "closed"
            /\ exit'[c] = "end"
            /\ LastIs(inlog'[c], IsEnd)
            /\ out'[c] # <<>>
            /\ EventType(out'[c][Len(out'[c])]) = "final"
            /\ outCause'[c][Len(out'[c])][1] = Len(inlog'[c])]_vars

C11_Witness ==
  /\ exit["c1"] = "end" /\ Len(out["c1"]) >= 2
  /\ pc["c2"] = "recv" /\ inlog["c2"] # <<>>

\* ---- C12 ----
News(log) == Count(log, LAMBDA e : e[2] = "new")

\* C12: each connection holds one recognizer; once constructed it has sample
\* rate 16000 and word detail on, it is the latest instance constructed for
\* the connection (one at accept, one per reset), and every recognizer call
\* is made on the instance that was the latest when it was made.
C12_OneConfiguredEngine ==
  \A c \in Conns :
    /\ (pc[c] \in {"idle", "absent"} \/ exit[c] = "init_error") => rec[c] = NoRec
    /\ (pc[c] \in {"recv", "send", "closed"} /\ exit[c] # "init_error") =>
         /\ rec[c].rate = 16000
         /\ rec[c].words = TRUE
         /\ rec[c].id = News(engLog[c])
         /\ rec[c].id >= 1
         /\ \A k \in 1..Len(engLog[c]) :
              engLog[c][k][1] = News(SubSeq(engLog[c], 1, k))

C12_Witness ==
  \E c \in Conns :
    /\ rec[c].id = 2 /\ rec[c].buf # <<>>
    /\ \E k \in 1..Len(engLog[c]) : engLog[c][k] = <<1, "AcceptWaveform">>
    /\ \E k \in 1..Len(engLog[c]) : engLog[c][k] = <<2, "AcceptWaveform">>

\* ---- C13 ----
\* C13: a connection whose recognizer could not be constructed at accept is
\* Closed at once: it received nothing, sent nothing, has no recognizer and
\* called no close; the process still serves, and the other connection's
\* events and recognizer are those of its own frames.
C13_InitErrorFatalToConnection ==
  \A c \in Conns :
    exit[c] = "init_error" =>
      /\ Closed(c)
      /\ inlog[c] = <<>> /\ out[c] = <<>> /\ pending[c] = <<>>
      /\ engLog[c] = <<>> /\ closeLog[c] = <<>>
      /\ rec[c] = NoRec
      /\ proc = "serving"
      /\ \A d \in Conns \ {c} :
           exit[d] # "init_error" /\ pc[d] # "idle" =>
             /\ out[d] = ReplayFrom(Fresh, Processed(d)).out
             /\ (Open(d) /\ exit[d] = "none") =>
                  rec[d] = ReplayFrom(Fresh, inlog[d]).rec

C13_Witness ==
  /\ exit["c1"] = "init_error"
  /\ pc["c2"] = "recv" /\ Len(out["c2"]) >= 2

\* ---- C14 ----
\* the recognizer of c before its i-th processed message
RecBefore(c, i) == ReplayFrom(Fresh, SubSeq(Processed(c), 1, i - 1)).rec

\* C14: every processed non-empty chunk has exactly one event: a final event
\* carrying the segment result when AcceptWaveform returned true for the
\* chunk, a partial event carrying the partial result when it returned false.
C14_FinalIffAccepted ==
  \A c \in Conns :
    LET P == Processed(c) IN
    \A i \in 1..Len(P) :
      IsAudio(P[i]) =>
        LET a == AcceptWaveform(RecBefore(c, i), P[i].bytes) IN
        /\ Cardinality(EventsCausedBy(c, i)) = 1
        /\ \A k \in EventsCausedBy(c, i) :
             out[c][k] =
               IF a.ready
               THEN <<"{", "type", "final", "data", "{", "text">> \o a.rec.buf
                      \o <<"result">> \o a.rec.buf \o <<"}", "}">>
               ELSE <<"{", "type", "partial", "data", "{", "partial">> \o a.rec.buf
                      \o <<"}", "}">>

C14_Witness ==
  \E c \in Conns :
    /\ Len(out[c]) >= 3
    /\ EventType(out[c][1]) = "partial"
    /\ EventType(out[c][2]) = "final"
    /\ EventType(out[c][3]) = "partial"

\* ---- C15 ----
Flushes(c) == Count(engLog[c], LAMBDA e : e[2] = "FinalResult")

\* C15: FinalResult is called at most once, and only for a "__end__" frame: a
\* handler ended by a disconnect or an error on another frame never flushed,
\* and the final events it sent are as many as the segments Result() returned,
\* so what the recognizer still buffered got no final event.
C15_FlushOnlyOnEnd ==
  \A c \in Conns :
    /\ Flushes(c) <= 1
    /\ Flushes(c) = 1 => LastIs(inlog[c], IsEnd)
    /\ (exit[c] \in {"error", "disconnect"} /\ ~LastIs(inlog[c], IsEnd)) =>
         /\ Flushes(c) = 0
         /\ Count(out[c], LAMBDA m : EventType(m) = "final")
              <= Count(engLog[c], LAMBDA e : e[2] = "Result")
    /\ client_state[c] = "DISCONNECTED" => Flushes(c) = 0

C15_Witness ==
  \E c \in Conns :
    /\ exit[c] = "error" /\ client_state[c] = "DISCONNECTED"
    /\ rec[c].buf # <<>>
    /\ Flushes(c) = 0
    /\ \A k \in 1..Len(out[c]) : EventType(out[c][k]) # "final"

\* ---- C16 ----
\* C16: a handler leaves Open only by "__end__" (then the last frame received
\* is "__end__"), by a disconnect or by an error, never otherwise; and, sends
\* eventually completing, a handler that has received "__end__" is eventually
\* Closed.
C16_ClosesOnlyOnEndDisconnectError ==
  /\ [][\A c \in Conns :
          (Open(c) /\ Closed(c)') =>
            \/ exit'[c] = "end" /\ LastIs(inlog'[c], IsEnd)
            \/ exit'[c] = "disconnect"
            \/ exit'[c] = "error"]_vars
  /\ \A c \in Conns : LastIs(inlog[c], IsEnd) ~> Closed(c)

C16_Witness ==
  \E c \in Conns :
    /\ exit[c] = "end"
    /\ Len(inlog[c]) = 4
    /\ Len(out[c]) = 3

\* ---- C17 ----
Systems(c) == Count(out[c], LAMBDA m : EventType(m) = "system")

PendingSystem(c) ==
  IF pending[c] # <<>> /\ EventType(pending[c][1].text) = "system" THEN 1 ELSE 0

\* C17: when the constructor raises in a "__reset__", the handler is Closed
\* with one close(1011, message), nothing is pending and the frame got no
\* system event; and every system event, sent or being sent, follows the
\* construction of a configured instance: they never outnumber the instances
\* constructed after the first.
C17_ResetFailureCloses ==
  \A c \in Conns :
    /\ (exit[c] = "error" /\ pending[c] = <<>> /\ client_state[c] = "CONNECTED"
          /\ LastIs(inlog[c], IsReset)) =>
         /\ Closed(c)
         /\ closeLog[c] = << [code |-> 1011, reason |-> "KaldiRecognizer failed"] >>
         /\ Systems(c) = Count(AllButLast(inlog[c]), IsReset)
         /\ rec[c].id = Count(AllButLast(inlog[c]), IsReset) + 1
    /\ exit[c] # "init_error" /\ pc[c] \in {"recv", "send", "closed"} =>
         /\ Systems(c) + PendingSystem(c) <= News(engLog[c]) - 1
         /\ PendingSystem(c) = 1 =>
              /\ rec[c] = NewRecognizer(News(engLog[c]))
              /\ engLog[c][Len(engLog[c])] = <<rec[c].id, "new">>

C17_Witness ==
  \E c \in Conns :
    /\ exit[c] = "error" /\ pending[c] = <<>>
    /\ closeLog[c] # <<>> /\ closeLog[c][1].reason = "KaldiRecognizer failed"
    /\ Systems(c) = 1
    /\ Len(inlog[c]) >= 3

Finals(c) == Count(out[c], LAMBDA m : EventType(m) = "final")

\* the processed chunks of c for which AcceptWaveform returned true
ReadyChunks(c) ==
  {i \in 1..Len(Processed(c)) :
     /\ IsAudio(Processed(c)[i])
     /\ AcceptWaveform(RecBefore(c, i), Processed(c)[i].bytes).ready}

\* C19: on every connection the system events sent are as many as the
\* "__reset__" frames processed, the final events sent as many as the
\* processed chunks for which AcceptWaveform returned true, plus one when the
\* handler ended by "__end__"; and every event sent was produced by a frame
\* received, a non-empty chunk, a "__reset__" or a "__end__".
C19_EventCounts ==
  \A c \in Conns :
    /\ Systems(c) = Count(Processed(c), IsReset)
    /\ Finals(c) = Cardinality(ReadyChunks(c)) + (IF exit[c] = "end" THEN 1 ELSE 0)
    /\ Len(outCause[c]) = Len(out[c])
    /\ \A k \in 1..Len(out[c]) :
         /\ outCause[c][k][1] \in 1..Len(inlog[c])
         /\ EngineCalled(inlog[c][outCause[c][k][1]])

C19_Witness ==
  \E c \in Conns :
    /\ exit[c] = "end"
    /\ Systems(c) = 1
    /\ Finals(c) = 2
    /\ Cardinality(ReadyChunks(c)) = 1

\* ---- C20 ----
\* C20: what the import left (the model loaded and the app serving, or the
\* import failed) is never changed by a connection, and a connection is
\* accepted only in a process whose import loaded the model.
C20_ModelLoadedBeforeAccept ==
  [][/\ proc' = proc
     /\ \A c \in Conns :
          (pc'[c] \notin {"idle", "absent"} \/ rec'[c] # NoRec) => proc' = "serving"]_vars

C20_Witness ==
  \E c \in Conns :
    /\ proc = "serving"
    /\ rec[c].id = 2
    /\ exit[c] = "end"

====
